---- MODULE Spec2Model ----
(***************************************************************************)
(* Rail network construction and station surgery of cityImage              *)
(* (transport_network.py): gdfs_from_railways, assign_stations_to_nodes,   *)
(* simplify_stations, merge_station_nodes, dissolve_stations and           *)
(* extend_stations.                                                        *)
(*                                                                         *)
(* Geometry: the network is laid out along one axis.  A point is an        *)
(* integer abscissa, a LineString is a sequence of abscissas (it may turn  *)
(* back on itself, so loops and parallel tracks exist), distances and      *)
(* lengths are exact integers.  A centroid of two points is rounded down   *)
(* to the grid.                                                            *)
(*                                                                         *)
(* Barrier relations of cityImage (barriers.py): along_water,              *)
(* along_within_parks, assign_structuring_barriers with barriers_along,    *)
(* _crossing_barriers and _within_parks, on streets and barriers in the    *)
(* plane.                                                                  *)
(***************************************************************************)
EXTENDS Integers, Sequences, FiniteSets, TLC

VARIABLES
    railways,   \* railways_gdf: the input lines, in row order
    stations,   \* stations_gdf: rows [pos, name], row.Index = position - 1
    nodes,      \* nodes_gdf: index (= nodeID) -> row
    edges,      \* edges_gdf: index (= edgeID) -> row
    code,       \* the 'code' column as computed at line 120
    pc,         \* the statement the pipeline is at
    row,        \* assign_stations_to_nodes: the next row of stations_gdf
    calls,      \* number of dissolve_stations / extend_stations calls made
    to_drop,    \* to_drop of the last merge pass
    merged,     \* the merges of the last merge pass, in order: <<survivor, removed>>
    prev,       \* the graph before the last step
    last,       \* what the last step did
    everNodes,  \* every nodeID a node of this graph has held
    everEdges,  \* every edgeID an edge of this graph has held
    reused,     \* the IDs given to a new row although held before
    dissolving, \* the frames passed to the running dissolve_stations call
    caller,     \* the frames passed to the last call, as its caller holds them
    globals,    \* the module-level dictionaries, name -> dict
    streets,    \* barriers.py: edges_gdf, index (= edgeID) -> row
    barriers_gdf, \* barriers.py: index (= barrierID) -> row [type, coords]
    columns     \* barriers.py: the columns added to edges_gdf, name -> values

vars == <<railways, stations, nodes, edges, code, pc, row, calls, to_drop,
          merged, prev, last, everNodes, everEdges, reused, dissolving,
          caller, globals, streets, barriers_gdf, columns>>

----------------------------------------------------------------------------
(* Program constants *)

Unassigned == 999999
None == "None"
AttachDistance == 50
Tolerance == 40
ExtendBuffer == 25
MinLoopLength == 1

(* Bounds of the model *)

MaxLines == 2        \* lines of a network that goes on to the stations
MaxBuildLines == 3   \* lines of a network that is only built
MaxStations == 2
MaxCalls == 2

\* the lines a network with stations is drawn from, in row order: two track
\* sections in a chain, a second track between the same two ends, a loop,
\* and a long section
StationLines ==
    << <<0, 20>>, <<20, 40>>, <<20, 50, 40>>, <<40, 50, 40>>, <<40, 200>> >>

\* the lines a network that is only built is drawn from, in any order and
\* repeated: with a section digitized backwards, a loop digitized in both
\* directions and two node-lines
BuildLines ==
    { <<0, 20>>, <<20, 0>>, <<20, 40>>, <<20, 50, 40>>, <<40, 50, 40>>,
      <<40, 200>>, <<40, 50, 30, 40>>, <<40, 30, 50, 40>>, <<0, 0>>, <<0, 0, 0>> }

StationPositions == {40, 70, 100, 250}
StationNames == {"a", "b"}

----------------------------------------------------------------------------
(* Helpers *)

Min(S) == CHOOSE x \in S : \A y \in S : x <= y
Max(S) == CHOOSE x \in S : \A y \in S : x >= y
Abs(n) == IF n < 0 THEN -n ELSE n

RECURSIVE SetToSeq(_)
SetToSeq(S) == IF S = {} THEN <<>> ELSE <<Min(S)>> \o SetToSeq(S \ {Min(S)})

\* the rows of a frame in row order (rows are appended with index max + 1)
Rows(f) == SetToSeq(DOMAIN f)

Reverse(s) == [i \in 1..Len(s) |-> s[Len(s) + 1 - i]]

SeqsUpTo(S, n) == UNION { [1..k -> S] : k \in 0..n }

\* the selections of 1..n rows of s, kept in the order of s
Selections(s, n) ==
    { [i \in 1..Len(ix) |-> s[ix[i]]] :
        ix \in { jx \in SeqsUpTo(1..Len(s), n) :
                    /\ jx # <<>>
                    /\ \A i \in 1..(Len(jx) - 1) : jx[i] < jx[i + 1] } }

\* f with row i set to r (appended when i is not yet an index)
Put(f, i, r) == [j \in DOMAIN f \cup {i} |-> IF j = i THEN r ELSE f[j]]

Restrict(f, S) == [j \in S |-> f[j]]

----------------------------------------------------------------------------
(* Geometry *)

\* LineString.length
RECURSIVE LineLength(_)
LineLength(c) ==
    IF Len(c) < 2 THEN 0 ELSE Abs(c[2] - c[1]) + LineLength(Tail(c))

\* the point of segment [a, b] nearest to p
Clamp(p, a, b) ==
    LET lo == IF a <= b THEN a ELSE b
        hi == IF a <= b THEN b ELSE a
    IN  IF p < lo THEN lo ELSE IF p > hi THEN hi ELSE p

\* Point.distance(LineString)
PointLineDistance(p, c) ==
    Min({ Abs(p - Clamp(p, c[i], c[i + 1])) : i \in 1..(Len(c) - 1) })

\* the first segment of c that holds the point of c nearest to p
NearestSegment(p, c) ==
    Min({ i \in 1..(Len(c) - 1) :
            Abs(p - Clamp(p, c[i], c[i + 1])) = PointLineDistance(p, c) })

\* centroid of the union of two points
Centroid(a, b) == (a + b) \div 2

\* split_line_at_interpolation(point, line): <<lines[0], lines[1], point>>
SplitLineAtInterpolation(p, c) ==
    LET i == NearestSegment(p, c)
        q == Clamp(p, c[i], c[i + 1])
        before == IF q = c[i] THEN SubSeq(c, 1, i - 1) ELSE SubSeq(c, 1, i)
        after == IF q = c[i + 1] THEN SubSeq(c, i + 2, Len(c))
                 ELSE SubSeq(c, i + 1, Len(c))
    IN  << IF before = <<>> THEN <<q, q>> ELSE before \o <<q>>,
           IF after = <<>> THEN <<q, q>> ELSE <<q>> \o after,
           q >>

\* distance_geometry_gdf(point, nodes_gdf): <<distance, index>> of the nearest row
DistanceToNodes(p, ns) ==
    LET d == Min({ Abs(p - ns[n].x) : n \in DOMAIN ns })
    IN  << d, Min({ n \in DOMAIN ns : Abs(p - ns[n].x) = d }) >>

\* distance_geometry_gdf(point, edges_gdf)
DistanceToEdges(p, es) ==
    LET d == Min({ PointLineDistance(p, es[e].coords) : e \in DOMAIN es })
    IN  << d, Min({ e \in DOMAIN es : PointLineDistance(p, es[e].coords) = d }) >>

----------------------------------------------------------------------------
(* gdfs_from_railways *)

Digit(d) == <<"0", "1", "2", "3", "4", "5", "6", "7", "8", "9">>[d + 1]

\* astype(str) of a non-negative integer
RECURSIVE Str(_)
Str(n) == IF n < 10 THEN <<Digit(n)>> ELSE Str(n \div 10) \o <<Digit(n % 10)>>

\* the code without the ordering of line 120
EdgeCode_AsStored(u, v) == Str(u) \o <<"-">> \o Str(v)

\* line 120: the lower node ID first, whichever of u and v holds it
EdgeCode(u, v) ==
    IF v >= u THEN Str(u) \o <<"-">> \o Str(v) ELSE Str(v) \o <<"-">> \o Str(u)

\* lines 97-98: drop rows whose geometry equals that of an earlier row
RECURSIVE DropDuplicateGeometries(_)
DropDuplicateGeometries(ls) ==
    IF ls = <<>> THEN <<>>
    ELSE LET n == Len(ls)
             init == DropDuplicateGeometries(SubSeq(ls, 1, n - 1))
         IN  IF \E i \in 1..(n - 1) : ls[i] = ls[n] THEN init
             ELSE Append(init, ls[n])

\* obtain_nodes_gdf: one node per distinct end coordinate, in encounter order
RECURSIVE EndCoordinates(_)
EndCoordinates(ls) ==
    IF ls = <<>> THEN <<>>
    ELSE LET n == Len(ls)
             init == EndCoordinates(SubSeq(ls, 1, n - 1))
             seen(s, c) == \E i \in 1..Len(s) : s[i] = c
             a == ls[n][1]
             b == ls[n][Len(ls[n])]
             s1 == IF seen(init, a) THEN init ELSE Append(init, a)
         IN  IF seen(s1, b) THEN s1 ELSE Append(s1, b)

ObtainNodes(ls) ==
    LET cs == EndCoordinates(ls)
    IN  [n \in 0..(Len(cs) - 1) |-> [x |-> cs[n + 1]]]

\* join_by_coordinates, then lines 113-114: u and v by coordinate, dense edgeID
NodeAt(ns, c) == CHOOSE n \in DOMAIN ns : ns[n].x = c

JoinByCoordinates(ns, ls) ==
    [e \in 0..(Len(ls) - 1) |->
        [u |-> NodeAt(ns, ls[e + 1][1]),
         v |-> NodeAt(ns, ls[e + 1][Len(ls[e + 1])]),
         coords |-> ls[e + 1]]]

\* lines 124-125: the coordinates in the direction of the code
OrientedCoords(ed) ==
    IF Str(ed.u) \o <<"-">> \o Str(ed.v) # EdgeCode(ed.u, ed.v)
    THEN Reverse(ed.coords) ELSE ed.coords

\* lines 128-129: drop_duplicates(['tmp'], keep = 'first')
DropDuplicateCoords(es) ==
    Restrict(es, { e \in DOMAIN es :
        ~ \E f \in DOMAIN es :
              f < e /\ OrientedCoords(es[f]) = OrientedCoords(es[e]) })

\* line 131 without its length test: every self-loop goes
DropNodeLines_AnyLoop(es) ==
    Restrict(es, { e \in DOMAIN es : es[e].u # es[e].v })

\* line 131 stopping at the first node-line it finds
DropNodeLines_FirstOnly(es) ==
    LET found == { e \in DOMAIN es :
                     es[e].u = es[e].v /\ LineLength(es[e].coords) < MinLoopLength }
    IN  Restrict(es, DOMAIN es \ (IF found = {} THEN {} ELSE {Min(found)}))

\* line 131: eliminate node-lines
DropNodeLines(es) ==
    Restrict(es, { e \in DOMAIN es :
        ~ (es[e].u = es[e].v /\ LineLength(es[e].coords) < MinLoopLength) })

\* lines 118-131: the code, the coordinates in its direction, the duplicates
\* and the node-lines
RepairPass(es) == DropNodeLines(DropDuplicateCoords(es))

NoStep == [op |-> "none", station |-> -1, dn |-> -1, de |-> -1,
           target |-> -1, newNode |-> -1, newEdge |-> -1]

GdfsFromRailways ==
    /\ pc = "raw"
    /\ LET ls == DropDuplicateGeometries(railways)
           ns == ObtainNodes(ls)
           es == JoinByCoordinates(ns, ls)
           out == RepairPass(es)
       IN  /\ nodes' = ns
           /\ edges' = out
           /\ code' = [e \in DOMAIN es |-> EdgeCode(es[e].u, es[e].v)]
           /\ everNodes' = DOMAIN ns
           /\ everEdges' = DOMAIN out
    /\ pc' = "assign"
    /\ prev' = [nodes |-> nodes, edges |-> edges]
    /\ last' = [NoStep EXCEPT !.op = "build"]
    /\ UNCHANGED caller
    /\ UNCHANGED <<globals, streets, barriers_gdf, columns, railways, stations, dissolving, row, calls, to_drop, merged, reused>>

----------------------------------------------------------------------------
(* correct_edges: every edge's geometry starts at node u and ends at node v *)

Dangling(ns, es) ==
    { e \in DOMAIN es : es[e].u \notin DOMAIN ns \/ es[e].v \notin DOMAIN ns }

CorrectLine(ns, ed) ==
    [ed EXCEPT !.coords =
        [i \in 1..Len(ed.coords) |->
            IF i = 1 THEN ns[ed.u].x
            ELSE IF i = Len(ed.coords) THEN ns[ed.v].x
            ELSE ed.coords[i]]]

CorrectEdges(ns, es) == [e \in DOMAIN es |-> CorrectLine(ns, es[e])]

----------------------------------------------------------------------------
(* The frames a function is called with.  arg is the caller's object as it  *)
(* is now, passed its value at the call; the function works on a copy, so   *)
(* what it writes in place reaches arg only if the two are one object.      *)

\* the function works on the object it was passed
Copy_SameObject(g) == [arg |-> g, passed |-> g, alias |-> TRUE]

\* nodes_gdf, edges_gdf = nodes_gdf.copy(), edges_gdf.copy()
Copy(g) == [arg |-> g, passed |-> g, alias |-> FALSE]

\* the function's frames after a write in place (.at, .loc, drop(inplace))
InPlace(env, g) == IF env.alias THEN [env EXCEPT !.arg = g] ELSE env

----------------------------------------------------------------------------
(* assign_stations_to_nodes *)

\* lines 139-141
AssignInit ==
    /\ pc = "assign"
    /\ nodes' = [n \in DOMAIN nodes |->
                    [x |-> nodes[n].x, stationID |-> Unassigned, name |-> None]]
    /\ pc' = "station"
    /\ row' = 1
    /\ prev' = [nodes |-> nodes, edges |-> edges]
    /\ last' = [NoStep EXCEPT !.op = "init"]
    /\ caller' = InPlace(Copy([nodes |-> nodes, edges |-> edges]),
                         [nodes |-> nodes', edges |-> edges])
    /\ UNCHANGED <<globals, streets, barriers_gdf, columns, railways, stations, dissolving, edges, code, calls, to_drop, merged,
                   everNodes, everEdges, reused>>

\* a node as near as the nearest edge no longer wins
AttachCase_NodeMustBeNearer(dn, de) ==
    IF dn > AttachDistance /\ de > AttachDistance THEN "discard"
    ELSE IF dn < de THEN "snap"
    ELSE "split"

\* a station at exactly the attachment distance is discarded
AttachCase_ExclusiveDistance(dn, de) ==
    IF dn >= AttachDistance /\ de >= AttachDistance THEN "discard"
    ELSE IF dn <= de THEN "snap"
    ELSE "split"

\* lines 150-155: what happens to a station, from its two nearest distances
AttachCase(dn, de) ==
    IF dn > AttachDistance /\ de > AttachDistance THEN "discard"
    ELSE IF dn <= de THEN "snap"
    ELSE "split"

StationID == row - 1
StationPoint == stations[row].pos
DistNodes == DistanceToNodes(StationPoint, nodes)
DistEdges == DistanceToEdges(StationPoint, edges)

AtStation == pc = "station" /\ row <= Len(stations)

StationStep(op, target, newNode, newEdge) ==
    [op |-> op, station |-> StationID, dn |-> DistNodes[1], de |-> DistEdges[1],
     target |-> target, newNode |-> newNode, newEdge |-> newEdge]

\* lines 150-151
AssignDiscard ==
    /\ AtStation
    /\ AttachCase(DistNodes[1], DistEdges[1]) = "discard"
    /\ row' = row + 1
    /\ prev' = [nodes |-> nodes, edges |-> edges]
    /\ last' = StationStep("discard", -1, -1, -1)
    /\ UNCHANGED caller
    /\ UNCHANGED <<globals, streets, barriers_gdf, columns, railways, stations, dissolving, nodes, edges, code, pc, calls, to_drop,
                   merged, everNodes, everEdges, reused>>

\* lines 152-154
AssignSnap ==
    /\ AtStation
    /\ AttachCase(DistNodes[1], DistEdges[1]) = "snap"
    /\ nodes' = [nodes EXCEPT ![DistNodes[2]] =
                    [@ EXCEPT !.stationID = StationID, !.name = stations[row].name]]
    /\ row' = row + 1
    /\ prev' = [nodes |-> nodes, edges |-> edges]
    /\ last' = StationStep("snap", DistNodes[2], -1, -1)
    /\ caller' = InPlace(caller, [nodes |-> nodes', edges |-> edges])
    /\ UNCHANGED <<globals, streets, barriers_gdf, columns, railways, stations, dissolving, edges, code, pc, calls, to_drop,
                   merged, everNodes, everEdges, reused>>

\* line 162 left out: the new node gets the name but no stationID
SplitNodes_NoStationID(ns, nodeID, point, sid, name) ==
    Put(ns, nodeID, [x |-> point, stationID |-> Unassigned, name |-> name])

\* lines 160-163: the new node
SplitNodes(ns, nodeID, point, sid, name) ==
    Put(ns, nodeID, [x |-> point, stationID |-> sid, name |-> name])

\* line 172 left out: the copy still starts at the original u
SplitEdges_CopyKeepsU(es, index_edge, new_index, nodeID, lines) ==
    LET copy == Put(es, new_index, es[index_edge])
    IN  [copy EXCEPT ![index_edge] = [@ EXCEPT !.coords = lines[1], !.v = nodeID],
                     ![new_index] = [@ EXCEPT !.coords = lines[2]]]

\* line 167 left out: the original edge keeps its whole geometry
SplitEdges_WholeGeometry(es, index_edge, new_index, nodeID, lines) ==
    LET copy == Put(es, new_index, es[index_edge])
    IN  [copy EXCEPT ![index_edge] = [@ EXCEPT !.v = nodeID],
                     ![new_index] = [@ EXCEPT !.coords = lines[2], !.u = nodeID]]

\* lines 165-172: the original edge keeps lines[0] and ends at the new node,
\* its copy at new_index takes lines[1] and starts at the new node
SplitEdges(es, index_edge, new_index, nodeID, lines) ==
    LET copy == Put(es, new_index, es[index_edge])
    IN  [copy EXCEPT ![index_edge] = [@ EXCEPT !.coords = lines[1], !.v = nodeID],
                     ![new_index] = [@ EXCEPT !.coords = lines[2], !.u = nodeID]]

\* lines 155-172
AssignSplit ==
    /\ AtStation
    /\ AttachCase(DistNodes[1], DistEdges[1]) = "split"
    /\ LET index_edge == DistEdges[2]
           split == SplitLineAtInterpolation(StationPoint, edges[index_edge].coords)
           nodeID == Max(DOMAIN nodes) + 1
           new_index == Max(DOMAIN edges) + 1
       IN  /\ nodes' = SplitNodes(nodes, nodeID, split[3], StationID, stations[row].name)
           /\ edges' = SplitEdges(edges, index_edge, new_index, nodeID, split)
           /\ last' = StationStep("split", index_edge, nodeID, new_index)
           /\ everNodes' = everNodes \cup {nodeID}
           /\ everEdges' = everEdges \cup {new_index}
           /\ reused' = reused \cup ({<<"node", nodeID>>} \cap ({"node"} \X everNodes))
                               \cup ({<<"edge", new_index>>} \cap ({"edge"} \X everEdges))
    /\ row' = row + 1
    /\ prev' = [nodes |-> nodes, edges |-> edges]
    /\ caller' = InPlace(caller, [nodes |-> nodes', edges |-> edges'])
    /\ UNCHANGED <<globals, streets, barriers_gdf, columns, railways, stations, dissolving, code, pc, calls, to_drop, merged>>

\* lines 174-182
AssignReturn ==
    /\ pc = "station"
    /\ row > Len(stations)
    /\ edges' = CorrectEdges(nodes, edges)
    /\ pc' = "idle"
    /\ prev' = [nodes |-> nodes, edges |-> edges]
    /\ last' = [NoStep EXCEPT !.op = "assigned"]
    /\ UNCHANGED caller
    /\ UNCHANGED <<globals, streets, barriers_gdf, columns, railways, stations, dissolving, nodes, code, row, calls, to_drop,
                   merged, everNodes, everEdges, reused>>

----------------------------------------------------------------------------
(* clean_network: the repair pass *)

\* line 17 with the self-loop removal switched off
clean_settings_NoSelfLoops ==
    [remove_disconnected_islands |-> FALSE, dead_ends |-> FALSE,
     same_uv_edges |-> FALSE, self_loops |-> FALSE, fix_topology |-> FALSE]

clean_settings ==
    [remove_disconnected_islands |-> FALSE, dead_ends |-> FALSE,
     same_uv_edges |-> FALSE, self_loops |-> TRUE, fix_topology |-> FALSE]

\* d.copy(): a new dictionary of the same items
DictCopy(h, ref) == [heap |-> h @@ ("copy" :> h[ref]), ref |-> "copy"]

\* d[key] = val
SetItem(h, ref, key, val) == [h EXCEPT ![ref] = [@ EXCEPT ![key] = val]]

SameCode(a, b) == EdgeCode(a.u, a.v) = EdgeCode(b.u, b.v)

SameGeometry(a, b) == a.coords = b.coords \/ a.coords = Reverse(b.coords)

\* edges of equal code and equal geometry, whatever its direction: the first stays
DropDuplicateEdges(es) ==
    Restrict(es, { e \in DOMAIN es :
        ~ \E f \in DOMAIN es :
              f < e /\ SameCode(es[f], es[e]) /\ SameGeometry(es[f], es[e]) })

\* same_uv_edges: edges of equal code, the first stays
DropSameUV(es) ==
    Restrict(es, { e \in DOMAIN es :
        ~ \E f \in DOMAIN es : f < e /\ SameCode(es[f], es[e]) })

\* The positions of the nodes need no recomputation here: every caller runs
\* correct_edges first, so each edge already starts and ends at its nodes.
CleanNetwork(es, settings) ==
    LET e1 == DropDuplicateEdges(es)
        e2 == IF settings.self_loops THEN DropNodeLines(e1) ELSE e1
    IN  IF settings.same_uv_edges THEN DropSameUV(e2) ELSE e2

----------------------------------------------------------------------------
(* simplify_stations and merge_station_nodes *)

\* edges_gdf.loc[edges_gdf.u == old, 'u'] = new, and the same for v
Rewire(es, old, new) ==
    [e \in DOMAIN es |->
        [es[e] EXCEPT !.u = IF @ = old THEN new ELSE @,
                      !.v = IF @ = old THEN new ELSE @]]

\* line 199: the same station is at u and v of an edge
SameStation(ns, u, v) == ns[u].name = ns[v].name /\ ns[u].name # None

\* lines 200-204: v is merged into u
MergeInto(st, u, v) ==
    [nodes |-> [st.nodes EXCEPT ![u].x = Centroid(st.nodes[u].x, st.nodes[v].x)],
     edges |-> Rewire(st.edges, v, u),
     to_drop |-> Append(st.to_drop, v),
     merged |-> Append(st.merged, <<u, v>>)]

\* lines 196-204: the edges in row order, u and v read from the live frame
RECURSIVE SimplifyLoop(_, _)
SimplifyLoop(rows, st) ==
    IF rows = <<>> THEN st
    ELSE LET u == st.edges[Head(rows)].u
             v == st.edges[Head(rows)].v
         IN  IF SameStation(st.nodes, u, v)
             THEN SimplifyLoop(Tail(rows), MergeInto(st, u, v))
             ELSE SimplifyLoop(Tail(rows), st)

\* lines 227-228: different stationID, one of the two unassigned
StationAndFree(ns, u, v) ==
    /\ ns[u].stationID # ns[v].stationID
    /\ (ns[u].stationID = Unassigned \/ ns[v].stationID = Unassigned)

\* line 224 left out: no edge is too long
TooLong_Never(len, tolerance) == FALSE

\* line 224: the edge is too long to be merged
TooLong(len, tolerance) == len > tolerance

\* lines 230-241 with u kept whatever its stationID
MergeStation_KeepsU(st, u, v) ==
    [nodes |-> [st.nodes EXCEPT ![u].x = Centroid(st.nodes[u].x, st.nodes[v].x)],
     edges |-> Rewire(st.edges, v, u),
     to_drop |-> Append(st.to_drop, v),
     merged |-> Append(st.merged, <<u, v>>)]

\* lines 230-241: the unassigned end is merged into the station's node
MergeStation(st, u, v) ==
    LET nodeID == IF st.nodes[u].stationID # Unassigned THEN u ELSE v
        drop == IF st.nodes[u].stationID # Unassigned THEN v ELSE u
    IN  [nodes |-> [st.nodes EXCEPT ![nodeID].x =
                        Centroid(st.nodes[u].x, st.nodes[v].x)],
         edges |-> Rewire(st.edges, drop, nodeID),
         to_drop |-> Append(st.to_drop, drop),
         merged |-> Append(st.merged, <<nodeID, drop>>)]

\* lines 222-241: the rows of old_edges_gdf, u, v and length read from it
RECURSIVE MergeLoop(_, _, _, _)
MergeLoop(rows, old, st, tolerance) ==
    IF rows = <<>> THEN st
    ELSE LET u == old[Head(rows)].u
             v == old[Head(rows)].v
         IN  IF TooLong(LineLength(old[Head(rows)].coords), tolerance)
             THEN MergeLoop(Tail(rows), old, st, tolerance)
             ELSE IF StationAndFree(st.nodes, u, v)
             THEN MergeLoop(Tail(rows), old, MergeStation(st, u, v), tolerance)
             ELSE MergeLoop(Tail(rows), old, st, tolerance)

Range(s) == { s[i] : i \in 1..Len(s) }

\* lines 206-207 and 243-244: drop the merged nodes and the edges between them
DropNodes(ns, drops) == Restrict(ns, DOMAIN ns \ Range(drops))

DropEdgesBetween(es, drops) ==
    Restrict(es, { e \in DOMAIN es :
        ~ (es[e].u \in Range(drops) /\ es[e].v \in Range(drops)) })

\* lines 206-211 and 243-248: the end of a merge pass.  correct_edges looks up
\* both nodes of every edge, so an edge on a dropped node stops the pass.
FinishPass(st, op, next) ==
    LET ns == DropNodes(st.nodes, st.to_drop)
        es == DropEdgesBetween(st.edges, st.to_drop)
    IN  /\ nodes' = ns
        /\ to_drop' = st.to_drop
        /\ merged' = st.merged
        /\ prev' = [nodes |-> nodes, edges |-> edges]
        /\ last' = [NoStep EXCEPT !.op = op]
        /\ caller' = InPlace(Copy([nodes |-> nodes, edges |-> edges]),
                             [nodes |-> ns, edges |-> st.edges])
        /\ IF Dangling(ns, es) # {}
           THEN edges' = es /\ pc' = "aborted"
           ELSE /\ edges' = CleanNetwork(CorrectEdges(ns, es), globals.clean_settings)
                /\ pc' = next
        /\ UNCHANGED <<globals, streets, barriers_gdf, columns, railways, stations, dissolving, code, row, calls,
                       everNodes, everEdges, reused>>

Start == [nodes |-> nodes, edges |-> edges, to_drop |-> <<>>, merged |-> <<>>]

\* lines 206-213 and 243-250 as a function of the frames the loop left
PassResult(st) ==
    LET ns == DropNodes(st.nodes, st.to_drop)
        es == DropEdgesBetween(st.edges, st.to_drop)
    IN  IF Dangling(ns, es) # {}
        THEN [nodes |-> ns, edges |-> es, raised |-> TRUE]
        ELSE [nodes |-> ns,
              edges |-> CleanNetwork(CorrectEdges(ns, es), globals.clean_settings),
              raised |-> FALSE]

StartOf(g) == [nodes |-> g.nodes, edges |-> g.edges, to_drop |-> <<>>, merged |-> <<>>]

\* lines 192-213 and 216-250 as functions of the frames passed
SimplifyStationsOf(g) == PassResult(SimplifyLoop(Rows(g.edges), StartOf(g)))

MergeStationNodesOf(g) ==
    PassResult(MergeLoop(Rows(g.edges), g.edges, StartOf(g), Tolerance))

\* lines 187-189 with the tolerance merge first
DissolveStationsOf_MergeFirst(g) ==
    LET a == MergeStationNodesOf(g)
        b == IF a.raised THEN a ELSE SimplifyStationsOf(a)
    IN  IF b.raised THEN b ELSE SimplifyStationsOf(b)

\* lines 187-189: simplify_stations, merge_station_nodes, simplify_stations
DissolveStationsOf(g) ==
    LET a == SimplifyStationsOf(g)
        b == IF a.raised THEN a ELSE MergeStationNodesOf(a)
    IN  IF b.raised THEN b ELSE SimplifyStationsOf(b)

\* lines 192-213
SimplifyStations ==
    /\ pc \in {"simplify1", "simplify2"}
    /\ FinishPass(SimplifyLoop(Rows(edges), Start), "simplify",
                  IF pc = "simplify1" THEN "merge" ELSE "idle")

\* lines 216-250
MergeStationNodes ==
    /\ pc = "merge"
    /\ FinishPass(MergeLoop(Rows(edges), edges, Start, Tolerance), "merge",
                  "simplify2")

\* lines 184-190: the call; its three steps follow
DissolveStations ==
    /\ pc = "idle"
    /\ calls < MaxCalls
    /\ calls' = calls + 1
    /\ pc' = "simplify1"
    /\ prev' = [nodes |-> nodes, edges |-> edges]
    /\ last' = [NoStep EXCEPT !.op = "dissolve"]
    /\ dissolving' = [nodes |-> nodes, edges |-> edges]
    /\ caller' = Copy([nodes |-> nodes, edges |-> edges])
    /\ UNCHANGED <<globals, streets, barriers_gdf, columns, railways, stations, nodes, edges, code, row, to_drop,
                   merged, everNodes, everEdges, reused>>

----------------------------------------------------------------------------
(* extend_stations *)

StationNodes(ns) == { n \in DOMAIN ns : ns[n].stationID # Unassigned }

\* lines 258-259: the edges within the buffer of the station that do not end at it
EdgesAround(es, n, g) ==
    { e \in DOMAIN es :
        /\ PointLineDistance(g, es[e].coords) <= ExtendBuffer
        /\ es[e].u # n
        /\ es[e].v # n }

\* lines 266-267: another station is nearer to the split point than this one
OtherStationNearer(ns, n, g, point) ==
    Abs(point - g) > DistanceToNodes(point, Restrict(ns, StationNodes(ns) \ {n}))[1]

\* lines 270-273: the edge already ends at a station of this name
EndsAtSameName(ns, ed, n) ==
    ns[ed.u].name = ns[n].name \/ ns[ed.v].name = ns[n].name

\* lines 263-283: one edge around station node n, whose geometry was g at the start
ExtendEdge(st, n, g, e) ==
    LET split == SplitLineAtInterpolation(g, st.edges[e].coords)
        new_index == Max(DOMAIN st.edges) + 1
    IN  IF st.error THEN st
        ELSE IF StationNodes(st.nodes) \ {n} = {} THEN [st EXCEPT !.error = TRUE]
        ELSE IF OtherStationNearer(st.nodes, n, g, split[3]) THEN st
        ELSE IF EndsAtSameName(st.nodes, st.edges[e], n) THEN st
        ELSE [nodes |-> [st.nodes EXCEPT ![n].x = Centroid(g, split[3])],
              edges |-> SplitEdges(st.edges, e, new_index, n, split),
              error |-> FALSE,
              created |-> Append(st.created, new_index)]

RECURSIVE ExtendEdges(_, _, _, _)
ExtendEdges(rows, st, n, g) ==
    IF rows = <<>> THEN st
    ELSE ExtendEdges(Tail(rows), ExtendEdge(st, n, g, Head(rows)), n, g)

\* lines 257-283: the station nodes of tmp_nodes in row order
RECURSIVE ExtendLoop(_, _, _)
ExtendLoop(rows, tmp_nodes, st) ==
    IF rows = <<>> \/ st.error THEN st
    ELSE LET n == Head(rows)
             g == tmp_nodes[n].x
         IN  ExtendLoop(Tail(rows), tmp_nodes,
                        ExtendEdges(SetToSeq(EdgesAround(st.edges, n, g)), st, n, g))

\* lines 288-289: the dictionaries after local_settings was made and written
ExtendSettings(h) ==
    LET c == DictCopy(h, "clean_settings")
    IN  [heap |-> SetItem(c.heap, c.ref, "same_uv_edges", TRUE), ref |-> c.ref]

local_settings == ExtendSettings(globals).heap[ExtendSettings(globals).ref]

\* lines 252-290; dissolve_stations (line 291) follows
ExtendStations ==
    /\ pc = "idle"
    /\ calls < MaxCalls
    /\ calls' = calls + 1
    /\ LET st == ExtendLoop(SetToSeq(StationNodes(nodes)), nodes,
                            [nodes |-> nodes, edges |-> edges, error |-> FALSE,
                             created |-> <<>>])
       IN  /\ nodes' = st.nodes
           /\ everEdges' = everEdges \cup Range(st.created)
           /\ reused' = reused \cup ({"edge"} \X (Range(st.created) \cap everEdges))
           /\ last' = [NoStep EXCEPT !.op = "extend", !.newEdge = Len(st.created)]
           /\ IF st.error
              THEN edges' = st.edges /\ pc' = "aborted"
              ELSE /\ edges' = CleanNetwork(CorrectEdges(st.nodes, st.edges),
                                            local_settings)
                   /\ pc' = "simplify1"
           /\ caller' = InPlace(Copy([nodes |-> nodes, edges |-> edges]),
                                [nodes |-> st.nodes, edges |-> st.edges])
    /\ prev' = [nodes |-> nodes, edges |-> edges]
    /\ dissolving' = [nodes |-> nodes', edges |-> edges']
    /\ globals' = Restrict(ExtendSettings(globals).heap, DOMAIN globals)
    /\ UNCHANGED <<streets, barriers_gdf, columns, railways, stations, code, row, to_drop, merged, everNodes>>

----------------------------------------------------------------------------
(* barriers.py: along_water, along_within_parks, assign_structuring_barriers *)
(*                                                                           *)
(* Geometry of the streets and barriers: a point is <<x, y>>, a LineString   *)
(* is a sequence of vertices joined by axis-parallel segments, every vertex  *)
(* on a multiple of 50.  Two such lines meet, if they meet at all, on a       *)
(* multiple of 25, so a line is compared through its points on that grid.    *)
(* A park barrier is the closed boundary of a rectangle.                     *)

WaterOffset == 200     \* along_water: offset = 200
ParkOffset == 200      \* along_within_parks: offset = 200

MaxStreets == 2
MaxBarriers == 2

\* the street segments an edges_gdf is drawn from: a street, a second one
\* beside it, one leaving its end, and one farther off than the offset
StreetLines ==
    << << <<0, 0>>, <<300, 0>> >>,
       << <<0, 50>>, <<300, 50>> >>,
       << <<300, 0>>, <<300, -100>> >>,
       << <<100, 250>>, <<200, 250>> >> >>

\* the rows a barriers_gdf is drawn from, in row order
BarrierRows ==
    << [type |-> "water", coords |-> << <<50, -50>>, <<50, 50>> >>],
       [type |-> "water", coords |-> << <<0, 100>>, <<300, 100>> >>],
       [type |-> "water", coords |-> << <<300, 0>>, <<300, 100>> >>],
       [type |-> "water", coords |-> << <<200, 0>>, <<200, -100>> >>],
       [type |-> "water", coords |-> << <<0, 300>>, <<300, 300>> >>],
       [type |-> "water", coords |-> << <<150, 300>>, <<450, 300>>, <<450, 100>> >>],
       [type |-> "road", coords |-> << <<100, -50>>, <<100, 50>> >>],
       [type |-> "road", coords |-> << <<0, 0>>, <<0, -100>> >>],
       [type |-> "park", coords |->
           << <<-50, -50>>, <<350, -50>>, <<350, 100>>, <<-50, 100>>, <<-50, -50>> >>],
       [type |-> "park", coords |->
           << <<0, 100>>, <<300, 100>>, <<300, 200>>, <<0, 200>>, <<0, 100>> >>],
       [type |-> "park", coords |->
           << <<50, -100>>, <<200, -100>>, <<200, 100>>, <<50, 100>>, <<50, -100>> >>] >>

Sign(n) == IF n > 0 THEN 1 ELSE IF n < 0 THEN -1 ELSE 0

\* one step of the grid in the direction of d
GridStep(d) == 25 * Sign(d)

\* the grid points after p up to q, along an axis-parallel segment
RECURSIVE Walk(_, _)
Walk(p, q) ==
    IF p = q THEN <<>>
    ELSE LET n == <<p[1] + GridStep(q[1] - p[1]), p[2] + GridStep(q[2] - p[2])>>
         IN  <<n>> \o Walk(n, q)

\* the grid points of a line, in the order of the line
RECURSIVE Densify(_)
Densify(c) ==
    IF Len(c) = 1 THEN c
    ELSE Densify(SubSeq(c, 1, Len(c) - 1)) \o Walk(c[Len(c) - 1], c[Len(c)])

Pts(c) == Range(Densify(c))

IsRing(c) == c[1] = c[Len(c)]

\* the boundary of a line is its two ends; a closed line has none
Boundary(c) == IF IsRing(c) THEN {} ELSE {c[1], c[Len(c)]}

Interior(c) == Pts(c) \ Boundary(c)

\* geometry.intersects(line), geometry.touches(line)
Intersects(a, b) == Pts(a) \cap Pts(b) # {}

Touches(a, b) == Intersects(a, b) /\ Interior(a) \cap Interior(b) = {}

Dist2(p, q) == (p[1] - q[1]) * (p[1] - q[1]) + (p[2] - q[2]) * (p[2] - q[2])

\* geometry.intersects(line.buffer(offset))
IntersectsBuffer(a, line, offset) ==
    \E p \in Pts(a), q \in Pts(line) : Dist2(p, q) <= offset * offset

\* bounds of a line, and of its buffer: [minx, miny, maxx, maxy]
Bounds(c) ==
    LET xs == { p[1] : p \in Range(c) }
        ys == { p[2] : p \in Range(c) }
    IN  [minx |-> Min(xs), miny |-> Min(ys), maxx |-> Max(xs), maxy |-> Max(ys)]

BufferBounds(c, offset) ==
    LET b == Bounds(c)
    IN  [minx |-> b.minx - offset, miny |-> b.miny - offset,
         maxx |-> b.maxx + offset, maxy |-> b.maxy + offset]

BoundsIntersect(a, b) ==
    /\ a.minx <= b.maxx /\ b.minx <= a.maxx
    /\ a.miny <= b.maxy /\ b.miny <= a.maxy

\* edges_gdf_sindex.intersection(bounds): the rows whose bounds meet them
SindexIntersection(es, bounds) ==
    { e \in DOMAIN es : BoundsIntersect(Bounds(es[e].coords), bounds) }

\* geometry.interpolate(0.5, normalized = True)
Midpoint(c) == Densify(c)[(Len(Densify(c)) + 1) \div 2]

\* nearest_points(point, geometry)[1]; of several nearest, the first of the line
NearestPoint(p, c) ==
    LET d == Densify(c)
        best == Min({ Dist2(p, d[i]) : i \in 1..Len(d) })
    IN  d[Min({ i \in 1..Len(d) : Dist2(p, d[i]) = best })]

Cross(o, a, b) == (a[1] - o[1]) * (b[2] - o[2]) - (a[2] - o[2]) * (b[1] - o[1])

OnSegment(p, a, b) ==
    /\ Cross(a, b, p) = 0
    /\ Min({a[1], b[1]}) <= p[1] /\ p[1] <= Max({a[1], b[1]})
    /\ Min({a[2], b[2]}) <= p[2] /\ p[2] <= Max({a[2], b[2]})

\* two segments, of any direction and possibly of no length, share a point
SegmentsIntersect(a, b, c, d) ==
    \/ /\ Sign(Cross(c, d, a)) * Sign(Cross(c, d, b)) < 0
       /\ Sign(Cross(a, b, c)) * Sign(Cross(a, b, d)) < 0
    \/ OnSegment(a, c, d) \/ OnSegment(b, c, d)
    \/ OnSegment(c, a, b) \/ OnSegment(d, a, b)

\* geometry.intersects(LineString([p, q]))
IntersectsSightLine(c, p, q) ==
    \E i \in 1..(Len(c) - 1) : SegmentsIntersect(p, q, c[i], c[i + 1])

\* polygonize_full(ring)[0][0]: the rectangle a park barrier bounds
InsidePolygon(p, ring) ==
    LET b == Bounds(ring)
    IN  b.minx < p[1] /\ p[1] < b.maxx /\ b.miny < p[2] /\ p[2] < b.maxy

OnPolygon(p, ring) ==
    LET b == Bounds(ring)
    IN  b.minx <= p[1] /\ p[1] <= b.maxx /\ b.miny <= p[2] /\ p[2] <= b.maxy

PolygonIntersects(ring, line) == \E p \in Pts(line) : OnPolygon(p, ring)

PolygonTouches(ring, line) ==
    /\ PolygonIntersects(ring, line)
    /\ ~ \E p \in Interior(line) : InsidePolygon(p, ring)

\* barriers_gdf[barriers_gdf['type'] ...]: the rows of some types
OfType(bs, types) == Restrict(bs, { b \in DOMAIN bs : bs[b].type \in types })

\* the barrierIDs of the rows S, in row order
IDList(S) == SetToSeq(S)

\* lines 383-388: the barriers no other candidate edge hides from the midpoint
RECURSIVE Unobstructed(_, _, _, _)
Unobstructed(rows, bs, line, pm) ==
    IF rows = <<>> THEN <<>>
    ELSE LET midpoint == Midpoint(line)
             target == NearestPoint(midpoint, bs[Head(rows)].coords)
             rest == Unobstructed(Tail(rows), bs, line, pm)
         IN  IF \E e \in DOMAIN pm : IntersectsSightLine(pm[e].coords, midpoint, target)
             THEN rest
             ELSE <<Head(rows)>> \o rest

\* lines 371-392
BarriersAlong(ix_line, es, bs, offset) ==
    LET line == es[ix_line].coords
        touching == { b \in DOMAIN bs : Touches(bs[b].coords, line) }
        intersecting == { b \in DOMAIN bs :
                            IntersectsBuffer(bs[b].coords, line, offset) } \ touching
        possible == SindexIntersection(es, BufferBounds(line, offset))
        pm == Restrict(es, possible \ {ix_line})
    IN  IF intersecting = {} THEN <<>>
        ELSE Unobstructed(IDList(intersecting), bs, line, pm)

\* lines 467-474 without the touching barriers taken out
CrossingBarriers_WithTouching(line, bs) ==
    IDList({ b \in DOMAIN bs : Intersects(bs[b].coords, line) })

\* lines 467-474
CrossingBarriers(line, bs) ==
    LET intersecting == { b \in DOMAIN bs : Intersects(bs[b].coords, line) }
        touching == { b \in DOMAIN bs : Touches(bs[b].coords, line) }
    IN  IF intersecting = {} THEN <<>>
        ELSE IDList(intersecting \ touching)

\* lines 413-420
WithinParks(line, park_polygons) ==
    LET intersecting == { b \in DOMAIN park_polygons :
                            PolygonIntersects(park_polygons[b].coords, line) }
        touching == { b \in DOMAIN park_polygons :
                        PolygonTouches(park_polygons[b].coords, line) }
    IN  IF intersecting = {} THEN <<>>
        ELSE IDList(intersecting \ touching)

\* lines 308-309 with neither exclusion
ARivers_Unfiltered(ac_rivers, c_rivers, bridge) == ac_rivers

\* lines 308-309: the difference of line 308 is overwritten by line 309
ARivers(ac_rivers, c_rivers, bridge) ==
    LET line308 == Range(ac_rivers) \ Range(c_rivers)
    IN  IF ~ bridge THEN ac_rivers ELSE <<>>

Water(bs) == OfType(bs, {"water"})
Parks(bs) == OfType(bs, {"park"})

\* line 442 with the parks kept
Structuring_AllTypes(bs) == bs

\* line 442: parks are disregarded
Structuring(bs) == Restrict(bs, { b \in DOMAIN bs : bs[b].type # "park" })

graph == <<railways, stations, nodes, edges, code, pc, row, calls, to_drop,
           merged, prev, last, everNodes, everEdges, reused, dissolving,
           caller, globals>>

\* lines 302-312
AlongWater ==
    /\ streets # <<>>
    /\ "bridge" \notin DOMAIN columns
    /\ LET tmp == Water(barriers_gdf)
           ac_rivers == [e \in DOMAIN streets |->
                            BarriersAlong(e, streets, tmp, WaterOffset)]
           c_rivers == [e \in DOMAIN streets |->
                            CrossingBarriers(streets[e].coords, tmp)]
           bridge == [e \in DOMAIN streets |-> Len(c_rivers[e]) > 0]
           a_rivers == [e \in DOMAIN streets |->
                            ARivers(ac_rivers[e], c_rivers[e], bridge[e])]
       IN  columns' = columns @@ ("bridge" :> bridge) @@ ("a_rivers" :> a_rivers)
    /\ UNCHANGED <<streets, barriers_gdf>>
    /\ UNCHANGED graph

\* lines 332-345
AlongWithinParks ==
    /\ streets # <<>>
    /\ "aw_parks" \notin DOMAIN columns
    /\ LET tmp == Parks(barriers_gdf)
           a_parks == [e \in DOMAIN streets |->
                          BarriersAlong(e, streets, tmp, ParkOffset)]
           w_parks == [e \in DOMAIN streets |->
                          WithinParks(streets[e].coords, Parks(barriers_gdf))]
           aw_parks == [e \in DOMAIN streets |->
                          Range(a_parks[e]) \cup Range(w_parks[e])]
       IN  columns' = columns @@ ("aw_parks" :> aw_parks)
    /\ UNCHANGED <<streets, barriers_gdf>>
    /\ UNCHANGED graph

\* lines 440-448
AssignStructuringBarriers ==
    /\ streets # <<>>
    /\ "sep_barr" \notin DOMAIN columns
    /\ LET tmp == Structuring(barriers_gdf)
           c_barr == [e \in DOMAIN streets |->
                         CrossingBarriers(streets[e].coords, tmp)]
           sep_barr == [e \in DOMAIN streets |-> Len(c_barr[e]) > 0]
       IN  columns' = columns @@ ("sep_barr" :> sep_barr)
    /\ UNCHANGED <<streets, barriers_gdf>>
    /\ UNCHANGED graph

\* index -> row, the index starting at 0
Frame(s) == [i \in 0..(Len(s) - 1) |-> s[i + 1]]

----------------------------------------------------------------------------

Blank ==
    /\ nodes = <<>>
    /\ edges = <<>>
    /\ code = <<>>
    /\ pc = "raw"
    /\ row = 1
    /\ calls = 0
    /\ to_drop = <<>>
    /\ merged = <<>>
    /\ prev = [nodes |-> <<>>, edges |-> <<>>]
    /\ last = NoStep
    /\ everNodes = {}
    /\ everEdges = {}
    /\ reused = {}
    /\ dissolving = [nodes |-> <<>>, edges |-> <<>>]
    /\ caller = Copy([nodes |-> <<>>, edges |-> <<>>])
    /\ globals = [clean_settings |-> clean_settings]

NoBarriers ==
    /\ streets = <<>>
    /\ barriers_gdf = <<>>
    /\ columns = <<>>

\* a network and its stations, before gdfs_from_railways
Init ==
    /\ railways \in Selections(StationLines, MaxLines)
    /\ stations \in SeqsUpTo([pos : StationPositions, name : StationNames], MaxStations)
    /\ Blank
    /\ NoBarriers

\* a network without stations, before gdfs_from_railways
InitBuild ==
    /\ railways \in (SeqsUpTo(BuildLines, MaxBuildLines) \ {<<>>})
    /\ stations = <<>>
    /\ Blank
    /\ NoBarriers

\* streets and barriers, before the relations are computed
InitBarriers ==
    /\ railways = <<>>
    /\ stations = <<>>
    /\ Blank
    /\ \E s \in Selections(StreetLines, MaxStreets) \ {<<>>} :
          streets = Frame([i \in 1..Len(s) |-> [coords |-> s[i]]])
    /\ \E b \in Selections(BarrierRows, MaxBarriers) : barriers_gdf = Frame(b)
    /\ columns = <<>>

Next ==
    \/ GdfsFromRailways
    \/ AssignInit
    \/ AssignDiscard
    \/ AssignSnap
    \/ AssignSplit
    \/ AssignReturn
    \/ DissolveStations
    \/ ExtendStations
    \/ SimplifyStations
    \/ MergeStationNodes

Spec == Init /\ [][Next]_vars

NextBuild == GdfsFromRailways

SpecBuild == InitBuild /\ [][NextBuild]_vars

NextBarriers ==
    \/ AlongWater
    \/ AlongWithinParks
    \/ AssignStructuringBarriers

SpecBarriers == InitBarriers /\ [][NextBarriers]_vars


----------------------------------------------------------------------------
(* Properties *)

AfterPass == last.op \in {"simplify", "merge"}

\* C1: after a merge pass no edge has u or v on a node the pass removed, and
\* every end of every edge is the ID of a node of the node collection.
C1_NoEdgeOnRemovedNode ==
    AfterPass =>
        /\ Dangling(nodes, edges) = {}
        /\ \A e \in DOMAIN edges :
              edges[e].u \notin Range(to_drop) /\ edges[e].v \notin Range(to_drop)

\* the nodes of ns that carry the name of n and are joined to it by edges between
\* nodes of that name
RECURSIVE Cluster(_, _, _)
Cluster(R, ns, es) ==
    LET more == { m \in DOMAIN ns :
                    \E r \in R, e \in DOMAIN es :
                        /\ ns[m].name = ns[r].name
                        /\ {es[e].u, es[e].v} = {m, r} }
    IN  IF more \subseteq R THEN R ELSE Cluster(R \cup more, ns, es)

Named(ns, name) == { n \in DOMAIN ns : ns[n].name = name }

\* C2: the nodes of one non-null name that are connected to each other by edges
\* are collapsed by simplify_stations to exactly one node of that name.
C2_ClusterBecomesOneNode ==
    last.op = "simplify" =>
        \A n \in DOMAIN prev.nodes :
            (/\ prev.nodes[n].name # None
             /\ Cluster({n}, prev.nodes, prev.edges) = Named(prev.nodes, prev.nodes[n].name))
            => Cardinality(Named(nodes, prev.nodes[n].name)) = 1

NameMergeDue(ns, es) ==
    { e \in DOMAIN es : SameStation(ns, es[e].u, es[e].v) }

ToleranceMergeDue(ns, es) ==
    { e \in DOMAIN es :
        /\ ~ TooLong(LineLength(es[e].coords), Tolerance)
        /\ StationAndFree(ns, es[e].u, es[e].v) }

Dissolved == pc = "idle" /\ last.op = "simplify"

\* C3: when dissolve_stations returns, no edge satisfies the name-identity merge
\* predicate and no edge satisfies the tolerance merge predicate.
C3_DissolveIsFixedPoint ==
    Dissolved => NameMergeDue(nodes, edges) = {} /\ ToleranceMergeDue(nodes, edges) = {}

\* C4: a merge pass never adds a node, and every merge it applies removes
\* exactly one node.
C4_EachMergeRemovesOneNode ==
    AfterPass =>
        /\ DOMAIN nodes \subseteq DOMAIN prev.nodes
        /\ Cardinality(DOMAIN prev.nodes) - Cardinality(DOMAIN nodes) = Len(merged)

StationStepDone == last.op \in {"discard", "snap", "split"}

GraphUnchanged == nodes = prev.nodes /\ edges = prev.edges

\* C5: a split of edge E = (u, v) creates one node N and one edge; E becomes
\* (u, N), the new edge is (N, v), and N carries the station's ID and name.
C5_SplitWiresBothHalves ==
    last.op = "split" =>
        LET E == last.target
            N == last.newNode
            E2 == last.newEdge
        IN  /\ N \notin DOMAIN prev.nodes
            /\ DOMAIN nodes = DOMAIN prev.nodes \cup {N}
            /\ E2 \notin DOMAIN prev.edges
            /\ DOMAIN edges = DOMAIN prev.edges \cup {E2}
            /\ edges[E].u = prev.edges[E].u
            /\ edges[E].v = N
            /\ edges[E2].u = N
            /\ edges[E2].v = prev.edges[E].v
            /\ nodes[N].stationID = last.station
            /\ nodes[N].name = stations[last.station + 1].name

C5_Split ==
    /\ last.op = "split"
    /\ prev.edges[last.target].u # prev.edges[last.target].v
    /\ Cardinality(DOMAIN prev.edges) > 1

\* C6: the lengths of the two halves of a split edge sum to the length of the
\* original edge, and the new node lies on the original edge's geometry.
C6_SplitKeepsLength ==
    last.op = "split" =>
        /\ LineLength(edges[last.target].coords) + LineLength(edges[last.newEdge].coords)
              = LineLength(prev.edges[last.target].coords)
        /\ PointLineDistance(nodes[last.newNode].x, prev.edges[last.target].coords) = 0

C6_SplitInside ==
    /\ last.op = "split"
    /\ LineLength(edges[last.target].coords) > 0
    /\ LineLength(edges[last.newEdge].coords) > 0
    /\ Len(prev.edges[last.target].coords) > 2

Snapped ==
    /\ last.op = "snap"
    /\ nodes[last.target].stationID = last.station
    /\ nodes[last.target].name = stations[last.station + 1].name
    /\ DOMAIN nodes = DOMAIN prev.nodes
    /\ edges = prev.edges

\* C7 as stated: a station whose nearest node is within 50 units is snapped to
\* that node, however close the nearest edge is.
C7_SnapWithinDistance ==
    (StationStepDone /\ last.dn <= AttachDistance) => Snapped

\* C7 amended: a station whose nearest node is within 50 units and not farther
\* than the nearest edge is snapped to that node; nothing is split or created.
C7_SnapWhenNodeNotFarther ==
    (StationStepDone /\ last.dn <= AttachDistance /\ last.dn <= last.de) => Snapped

C7_SnapOffNode ==
    Snapped /\ last.dn > 0 /\ last.dn <= AttachDistance /\ last.de = last.dn

\* C8: a station farther than 50 units from every node and every edge leaves the
\* graph as it was and gives its ID to no node; at exactly 50 units it is attached.
C8_FarStationDiscarded ==
    StationStepDone =>
        /\ (last.dn > AttachDistance /\ last.de > AttachDistance) =>
              /\ last.op = "discard"
              /\ GraphUnchanged
              /\ \A n \in DOMAIN nodes : nodes[n].stationID # last.station
        /\ (last.dn = AttachDistance \/ last.de = AttachDistance) =>
              /\ last.op # "discard"
              /\ \E n \in DOMAIN nodes : nodes[n].stationID = last.station

C8_Discarded ==
    /\ last.op = "discard"
    /\ last.dn > AttachDistance
    /\ last.de > AttachDistance
    /\ \E n \in DOMAIN nodes : nodes[n].stationID # Unassigned

\* C9: no ID that a node or an edge of the graph has held is given to a new node
\* or a new edge.
C9_NoIDReused == reused = {}

MaxCodeID == 11

\* C10: the code of an edge is the same whichever end is stored as u, and is
\* the lower ID, "-", the higher ID.
C10_CodeSymmetric ==
    /\ \A e \in DOMAIN code :
          LET ed == JoinByCoordinates(nodes, DropDuplicateGeometries(railways))[e]
          IN  pc = "assign" => code[e] = EdgeCode(ed.v, ed.u)
    /\ \A u, v \in 0..MaxCodeID :
          pc = "assign" =>
              /\ EdgeCode(u, v) = EdgeCode(v, u)
              /\ EdgeCode(u, v) = Str(Min({u, v})) \o <<"-">> \o Str(Max({u, v}))

C10_ReversedEdgeCoded ==
    /\ pc = "assign"
    /\ \E e \in DOMAIN edges : edges[e].u > edges[e].v /\ code[e] = <<"0", "-", "1">>

Built == pc = "assign"

IsLoop(c) == c[1] = c[Len(c)]

\* C11: in the edges gdfs_from_railways returns, no two edges have equal code
\* and coordinates that are equal or the reverse of each other, self-loops
\* digitized in opposite directions included.
C11_NoDuplicateEdge ==
    Built =>
        \A e, f \in DOMAIN edges :
            e # f => ~ (SameCode(edges[e], edges[f]) /\ SameGeometry(edges[e], edges[f]))

\* C12: the edges returned hold no self-loop shorter than 1, and every
\* self-loop of the input at least 1 long is among them.
C12_OnlyNodeLinesRemoved ==
    Built =>
        /\ \A e \in DOMAIN edges :
              ~ (edges[e].u = edges[e].v /\ LineLength(edges[e].coords) < MinLoopLength)
        /\ \A i \in 1..Len(railways) :
              IsLoop(railways[i]) /\ LineLength(railways[i]) >= MinLoopLength
                  => \E e \in DOMAIN edges :
                         edges[e].coords = railways[i] /\ edges[e].u = edges[e].v

C12_NodeLineRemovedLoopKept ==
    /\ Built
    /\ \E i \in 1..Len(railways) :
          IsLoop(railways[i]) /\ LineLength(railways[i]) < MinLoopLength
    /\ \E e \in DOMAIN edges :
          edges[e].u = edges[e].v /\ LineLength(edges[e].coords) >= MinLoopLength

\* C13: the edgeIDs of the edges returned are exactly 0..n-1, n their number.
C13_DenseEdgeIDs ==
    Built => DOMAIN edges = 0..(Cardinality(DOMAIN edges) - 1)

\* C18: the repair pass of gdfs_from_railways applied to its own output
\* removes no edge and changes nothing.
C18_RepairIdempotent ==
    Built => RepairPass(edges) = edges

C18_RepairRemoved ==
    /\ Built
    /\ Cardinality(DOMAIN edges) + 2 <= Len(DropDuplicateGeometries(railways))
    /\ edges # <<>>

DissolveReturned == pc \in {"idle", "aborted"} /\ last.op \in {"simplify", "merge"}

Has(column) == column \in DOMAIN columns

AcRivers(e) == Range(BarriersAlong(e, streets, Water(barriers_gdf), WaterOffset))

CRivers(e) == Range(CrossingBarriers(streets[e].coords, Water(barriers_gdf)))

AParks(e) == Range(BarriersAlong(e, streets, Parks(barriers_gdf), ParkOffset))

WParks(e) == Range(WithinParks(streets[e].coords, Parks(barriers_gdf)))

\* C14: after along_water, no barrier that crosses an edge is in the along
\* list a_rivers of that edge.
C14_CrossingNeverAlong ==
    Has("a_rivers") =>
        \A e \in DOMAIN streets : Range(columns["a_rivers"][e]) \cap CRivers(e) = {}

\* a barrier that crosses an edge and that barriers_along returned for it
C14_CrossingWasCandidate ==
    /\ Has("a_rivers")
    /\ \E e \in DOMAIN streets : AcRivers(e) \cap CRivers(e) # {}

\* C15: a barrier that only touches an edge is returned for that edge neither
\* by _crossing_barriers nor by barriers_along, whatever frame of barriers
\* they are called with.
C15_TouchingNeverReturned ==
    Has("bridge") /\ Has("aw_parks") /\ Has("sep_barr") =>
        \A e \in DOMAIN streets : \A b \in DOMAIN barriers_gdf :
            Touches(barriers_gdf[b].coords, streets[e].coords) =>
                \A bs \in { barriers_gdf, Water(barriers_gdf), Parks(barriers_gdf),
                            Structuring(barriers_gdf) } :
                    /\ b \notin Range(CrossingBarriers(streets[e].coords, bs))
                    /\ b \notin Range(BarriersAlong(e, streets, bs, WaterOffset))

\* an edge one barrier touches and another crosses, the relations computed
C15_TouchedAndCrossed ==
    /\ Has("bridge") /\ Has("aw_parks") /\ Has("sep_barr")
    /\ \E e \in DOMAIN streets : \E b, c \in DOMAIN barriers_gdf :
          /\ Touches(barriers_gdf[b].coords, streets[e].coords)
          /\ c \in Range(CrossingBarriers(streets[e].coords, barriers_gdf))

\* C16: for every edge the along, crossing and within sets are pairwise
\* disjoint; no park is both in the along result and in the within result.
C16_RelationsDisjoint ==
    /\ Has("a_rivers") =>
          \A e \in DOMAIN streets : Range(columns["a_rivers"][e]) \cap CRivers(e) = {}
    /\ Has("aw_parks") =>
          \A e \in DOMAIN streets : AParks(e) \cap WParks(e) = {}

\* C17: bridge is true exactly of the edges a water barrier intersects without
\* merely touching, sep_barr exactly of those a barrier that is no park does.
C17_BridgeIffCrossed ==
    /\ Has("bridge") =>
          \A e \in DOMAIN streets :
              columns["bridge"][e] <=>
                  \E b \in DOMAIN barriers_gdf :
                      /\ barriers_gdf[b].type = "water"
                      /\ Intersects(barriers_gdf[b].coords, streets[e].coords)
                      /\ ~ Touches(barriers_gdf[b].coords, streets[e].coords)
    /\ Has("sep_barr") =>
          \A e \in DOMAIN streets :
              columns["sep_barr"][e] <=>
                  \E b \in DOMAIN barriers_gdf :
                      /\ barriers_gdf[b].type # "park"
                      /\ Intersects(barriers_gdf[b].coords, streets[e].coords)
                      /\ ~ Touches(barriers_gdf[b].coords, streets[e].coords)

\* one edge crossed by water, another only touched by it
C17_CrossedAndTouched ==
    /\ Has("bridge") /\ Has("sep_barr")
    /\ \E e, f \in DOMAIN streets :
          /\ columns["bridge"][e] /\ columns["sep_barr"][e]
          /\ ~ columns["bridge"][f]
          /\ \E b \in DOMAIN barriers_gdf :
                /\ barriers_gdf[b].type = "water"
                /\ Touches(barriers_gdf[b].coords, streets[f].coords)

\* C20: after along_water the along list of an edge is what barriers_along
\* found less the barriers that cross the edge.
C20_AlongIsCandidatesLessCrossing ==
    Has("a_rivers") =>
        \A e \in DOMAIN streets :
            Range(columns["a_rivers"][e]) = AcRivers(e) \ CRivers(e)

\* the sight line from the midpoint of edge e to barrier b meets edge f
Hides(f, e, b) ==
    LET midpoint == Midpoint(streets[e].coords)
    IN  IntersectsSightLine(streets[f].coords, midpoint,
                            NearestPoint(midpoint, barriers_gdf[b].coords))

\* C21: barriers_along returns a barrier for an edge only if no other edge
\* of the graph, wherever it lies, meets the sight line from the edge's
\* midpoint to the nearest point of the barrier.
C21_NoEdgeOnSightLine ==
    Has("a_rivers") /\ Has("aw_parks") =>
        \A e \in DOMAIN streets : \A b \in AcRivers(e) \cup AParks(e) :
            ~ \E f \in DOMAIN streets \ {e} : Hides(f, e, b)

\* the park's polygon holds every point of the line
FullyEnclosed(line, ring) == \A p \in Pts(line) : OnPolygon(p, ring)

\* C22: _within_parks lists a park for an edge only if the park's polygon
\* encloses the whole edge.
C22_WithinMeansEnclosed ==
    Has("aw_parks") =>
        \A e \in DOMAIN streets : \A b \in WParks(e) :
            FullyEnclosed(streets[e].coords, barriers_gdf[b].coords)

MergePassDone == last.op = "merge"

\* C23: merge_station_nodes merges the ends of an edge only when exactly one
\* of them is unassigned; the assigned end survives with its nodeID,
\* stationID and name, so the pass removes no assigned node.
C23_AssignedEndSurvives ==
    MergePassDone =>
        /\ \A i \in 1..Len(merged) :
              LET keep == merged[i][1]
                  drop == merged[i][2]
              IN  /\ prev.nodes[keep].stationID # Unassigned
                  /\ prev.nodes[drop].stationID = Unassigned
                  /\ keep \in DOMAIN nodes
        /\ \A n \in DOMAIN prev.nodes :
              prev.nodes[n].stationID # Unassigned =>
                  /\ n \in DOMAIN nodes
                  /\ nodes[n].stationID = prev.nodes[n].stationID
                  /\ nodes[n].name = prev.nodes[n].name

\* a pass that merged a free node lying between two different stations
C23_MergedBetweenStations ==
    /\ MergePassDone
    /\ \E i, j \in 1..Len(merged) :
          /\ merged[i][2] = merged[j][2]
          /\ prev.nodes[merged[i][1]].stationID # prev.nodes[merged[j][1]].stationID

\* C24: merge_station_nodes merges the ends of an edge only if the edge is
\* strictly shorter than the tolerance.
\* the edges of the graph the pass read that join the two nodes of merge i
Between(i) ==
    { e \in DOMAIN prev.edges :
        {prev.edges[e].u, prev.edges[e].v} = {merged[i][1], merged[i][2]} }

\* the merges of the pass that joined the same two nodes as merge i
SamePair(i) == { j \in 1..Len(merged) : merged[j] = merged[i] }

C24_MergeOnlyShorterThanTolerance ==
    MergePassDone =>
        \A i \in 1..Len(merged) :
            Cardinality(SamePair(i)) <=
                Cardinality({ e \in Between(i) :
                                LineLength(prev.edges[e].coords) < Tolerance })

\* C24, as the code has it: every merge of the pass has an edge of its own
\* between the two nodes that is not longer than the tolerance; an edge as
\* long as the tolerance does trigger a merge.
C24_MergeOnlyWithinTolerance ==
    MergePassDone =>
        \A i \in 1..Len(merged) :
            Cardinality(SamePair(i)) <=
                Cardinality({ e \in Between(i) :
                                LineLength(prev.edges[e].coords) <= Tolerance })

\* an edge exactly as long as the tolerance was merged
C24_MergedAtTolerance ==
    /\ MergePassDone
    /\ \E i \in 1..Len(merged) :
          \A e \in Between(i) : LineLength(prev.edges[e].coords) = Tolerance

\* C25: in one pass of merge_station_nodes no node is merged away twice, and
\* no node that an earlier merge of the pass removed is a partner again.
C25_NoNodeMergedTwice ==
    MergePassDone =>
        \A i, j \in 1..Len(merged) :
            i < j => /\ merged[j][2] # merged[i][2]
                     /\ merged[j][1] # merged[i][2]

\* the state a merge pass or extend_stations hands to the step after it
PassHandedOver ==
    /\ last.op \in {"simplify", "merge", "extend"}
    /\ pc \in {"simplify1", "merge", "simplify2", "idle"}

NoNodeLine(es) ==
    \A e \in DOMAIN es :
        ~ (es[e].u = es[e].v /\ LineLength(es[e].coords) < MinLoopLength)

NoDuplicateEdge(es) ==
    \A e, f \in DOMAIN es :
        e # f => ~ (SameCode(es[e], es[f]) /\ SameGeometry(es[e], es[f]))

\* C26: the graph a merge step reads after a merge pass, or after the
\* splits of extend_stations, has been through the repair with the
\* self-loop removal on: it holds no node-line and no duplicate edge.
C26_RepairedBeforeNextMerge ==
    PassHandedOver => NoNodeLine(edges) /\ NoDuplicateEdge(edges)

\* a merge pass whose merges left a self-loop for the repair to remove
C26_RepairRemovedLoop ==
    /\ PassHandedOver
    /\ last.op \in {"simplify", "merge"}
    /\ merged # <<>>
    /\ LET st == IF last.op = "merge"
                 THEN MergeLoop(Rows(prev.edges), prev.edges, StartOf(prev), Tolerance)
                 ELSE SimplifyLoop(Rows(prev.edges), StartOf(prev))
           ns == DropNodes(st.nodes, st.to_drop)
           es == DropEdgesBetween(st.edges, st.to_drop)
       IN  /\ Dangling(ns, es) = {}
           /\ ~ NoNodeLine(CorrectEdges(ns, es))

\* a station node of the name of n, other than n, lies nearer to the point
SameNameStationNearer(ns, n, g, point) ==
    \E m \in StationNodes(ns) \ {n} :
        /\ ns[m].name = ns[n].name
        /\ Abs(point - ns[m].x) < Abs(point - g)

\* extend_stations returned without one split: every pair of a station
\* node and an edge around it was decided on the graph it was called with
ExtendedNothing ==
    last.op = "extend" /\ pc # "aborted" /\ last.newEdge = 0

\* C27: an edge within 25 of a station node that does not end there is left
\* unattached only when a station of the same name is nearer to the split
\* point.
C27_AttachedUnlessSameNameNearer ==
    ExtendedNothing =>
        \A n \in StationNodes(prev.nodes) :
            \A e \in EdgesAround(prev.edges, n, prev.nodes[n].x) :
                SameNameStationNearer(prev.nodes, n, prev.nodes[n].x,
                    SplitLineAtInterpolation(prev.nodes[n].x, prev.edges[e].coords)[3])

\* the nodes carry the stationID and name columns
HasStationColumns == pc \notin {"raw", "assign"}

\* C28: a node with a name has a stationID other than 999999, so no two
\* nodes satisfy the test of simplify_stations and that of
\* merge_station_nodes together.
C28_NamedNodesAssigned ==
    HasStationColumns =>
        /\ \A n \in DOMAIN nodes :
               nodes[n].name # None => nodes[n].stationID # Unassigned
        /\ \A u, v \in DOMAIN nodes :
               ~ (SameStation(nodes, u, v) /\ StationAndFree(nodes, u, v))

\* dissolve_stations is running on a graph with an edge between two nodes
\* of one name and an edge between a station and a free node
C28_BothTestsMet ==
    /\ pc \in {"simplify1", "merge", "simplify2"}
    /\ \E e \in DOMAIN edges :
           edges[e].u # edges[e].v /\ SameStation(nodes, edges[e].u, edges[e].v)
    /\ \E e \in DOMAIN edges : StationAndFree(nodes, edges[e].u, edges[e].v)

AssignReturned == last.op = "assigned"

\* the station of row i lies within the attachment distance of the graph
WithinReach(i) ==
    \/ DistanceToNodes(stations[i].pos, nodes)[1] <= AttachDistance
    \/ DistanceToEdges(stations[i].pos, edges)[1] <= AttachDistance

\* C29: in the nodes assign_stations_to_nodes returns, every station within
\* 50 of a node or an edge is the stationID of exactly one node.
C29_EveryStationOnOneNode ==
    AssignReturned =>
        \A i \in 1..Len(stations) :
            WithinReach(i) =>
                Cardinality({ n \in DOMAIN nodes : nodes[n].stationID = i - 1 }) = 1

\* C30: the frames a function of the pipeline was called with are, after
\* it, as they were passed, and the module-level clean_settings keeps
\* same_uv_edges False and self_loops True.
C30_CallerFramesUnchanged ==
    /\ caller.arg = caller.passed
    /\ ~ globals.clean_settings.same_uv_edges
    /\ globals.clean_settings.self_loops

\* extend_stations split an edge onto a station and ran clean_network with
\* same_uv_edges on: its frames differ from the ones it was passed
C30_ExtendedOnCopy ==
    /\ last.op = "extend"
    /\ last.newEdge > 0
    /\ pc = "simplify1"
    /\ caller.passed = prev
    /\ prev.edges # edges
    /\ prev.nodes # nodes

====
